---- MODULE Spec2Model ----
(***************************************************************************)
(* Long-running-operation lifecycle of yandex_cloud_client: the Operation  *)
(* entity, the OperationWait poller (blocking and cooperative loop) and    *)
(* the resource-action dispatchers that route a mutating call through it.  *)
(*                                                                         *)
(* Time is counted in ticks, TicksPerSecond ticks to a second, so that     *)
(* sub-second delays and timeouts exist and int() truncates them.          *)
(***************************************************************************)
EXTENDS Integers, Sequences, FiniteSets, TLC

\* ------------------------------------------------------------------ bounds
TicksPerSecond == 2
MaxTimeout == 4
MaxDelay == 2
MaxLatency == 1
\* cap on the refresh calls of one wait: enough for a wait whose every
\* refresh takes at least one tick to reach the largest deadline and to
\* make the closing call of the loop.
MaxRefresh == MaxTimeout + 2
\* the largest error code a deserialized body carries: one past the enum
MaxCode == 17
\* the largest batch
MaxOps == 3
\* cap on the resumptions of one coroutine
MaxPolls == 1
\* the largest number of instances the snapshotter is configured with
MaxInstances == 2
\* the largest number of operations prepared for one instance
MaxTodo == 8

\* ------------------------------------------------------- python values
None == <<>>
Some(x) == <<x>>
PyNone == [kind |-> "None"]
Pending == [kind |-> "pending"]

Return(v) == [kind |-> "return", value |-> v]
Raise(type, payload) == [kind |-> "raise", exc |-> [type |-> type, payload |-> payload]]

\* int(x) of a non-negative number of seconds x given in ticks
int(x) == (x \div TicksPerSecond) * TicksPerSecond

\* --------------------------------------------------------- RpcError enum
\* the enum with DATA_LOSS given the value of UNAVAILABLE
RpcErrorMembers_alias ==
  <<
     [name |-> "CANCELLED", value |-> 1],
     [name |-> "UNKNOWN", value |-> 2],
     [name |-> "INVALID_ARGUMENT", value |-> 3],
     [name |-> "DEADLINE_EXCEEDED", value |-> 4],
     [name |-> "NOT_FOUND", value |-> 5],
     [name |-> "ALREADY_EXISTS", value |-> 6],
     [name |-> "PERMISSION_DENIED", value |-> 7],
     [name |-> "RESOURCE_EXHAUSTED", value |-> 8],
     [name |-> "FAILED_PRECONDITION", value |-> 9],
     [name |-> "ABORTED", value |-> 10],
     [name |-> "OUT_OF_RANGE", value |-> 11],
     [name |-> "NOT_IMPLEMENTED", value |-> 12],
     [name |-> "INTERNAL", value |-> 13],
     [name |-> "UNAVAILABLE", value |-> 14],
     [name |-> "DATA_LOSS", value |-> 14],
     [name |-> "UNAUTHENTICATED", value |-> 16] >>

\* the members of the enum, in the order of their declaration
RpcErrorMembers ==
  <<
     [name |-> "CANCELLED", value |-> 1],
     [name |-> "UNKNOWN", value |-> 2],
     [name |-> "INVALID_ARGUMENT", value |-> 3],
     [name |-> "DEADLINE_EXCEEDED", value |-> 4],
     [name |-> "NOT_FOUND", value |-> 5],
     [name |-> "ALREADY_EXISTS", value |-> 6],
     [name |-> "PERMISSION_DENIED", value |-> 7],
     [name |-> "RESOURCE_EXHAUSTED", value |-> 8],
     [name |-> "FAILED_PRECONDITION", value |-> 9],
     [name |-> "ABORTED", value |-> 10],
     [name |-> "OUT_OF_RANGE", value |-> 11],
     [name |-> "NOT_IMPLEMENTED", value |-> 12],
     [name |-> "INTERNAL", value |-> 13],
     [name |-> "UNAVAILABLE", value |-> 14],
     [name |-> "DATA_LOSS", value |-> 15],
     [name |-> "UNAUTHENTICATED", value |-> 16] >>

\* RpcError(n): the first member declared with the value n; ValueError
\* when there is none
RpcError(n) ==
  LET hits == {i \in DOMAIN RpcErrorMembers : RpcErrorMembers[i].value = n} IN
  IF hits = {} THEN Raise("ValueError", None)
  ELSE Return(RpcErrorMembers[CHOOSE i \in hits : \A k \in hits : i <= k])

\* ------------------------------------------------- what the server sends
OperationId == "op-1"
Description == "create"

\* a JSON body of the operation resource; done is "absent", "true" or
\* "false", error is None (absent or {}) or Some([code, message])
Body(done, error, rev) ==
  [kind |-> "body", id |-> OperationId, description |-> Description,
   done |-> done, error |-> error, modified_at |-> rev]

BodyPending == Body("absent", None, 1)
BodyDone == Body("true", None, 1)
BodyDoneLater == Body("true", None, 2)
BodyFailed == Body("true", Some([code |-> 5, message |-> "x"]), 1)
BodyFailedNotDone == Body("false", Some([code |-> 13, message |-> "y"]), 1)
BodyEmpty == [kind |-> "empty"]
\* the request raised: a network error once the retries are exhausted, or
\* the typed error of a non-2xx status
TransportError(type) == [kind |-> "error", type |-> type]

TransportErrors == {TransportError("NetworkError"), TransportError("ResourceNotFound")}
Bodies == {BodyPending, BodyDone, BodyDoneLater, BodyFailed, BodyFailedNotDone, BodyEmpty}
\* answers to a refresh (GET operations/{id})
Responses == Bodies \cup TransportErrors
\* answers to the mutating call (POST / DELETE)
ImmediateResponses == {BodyPending, BodyEmpty, TransportError("NetworkError")}

\* ------------------------------------------------------------ Operation
\* OperationError.de_json / OperationError.__init__
OperationError_de_json(data) ==
  IF data = None THEN Return(None)
  ELSE LET code == RpcError(data[1].code) IN
       IF code.kind = "raise" THEN code
       ELSE Return(Some([code |-> code.value, message |-> data[1].message]))

\* Operation.de_json / Operation.__init__: done = bool(done)
Operation_de_json(data) ==
  IF data.kind = "empty" THEN Return(PyNone)
  ELSE LET error == OperationError_de_json(data.error) IN
       IF error.kind = "raise" THEN error
       ELSE Return([kind |-> "Operation", id |-> data.id,
                    description |-> data.description,
                    done |-> (data.done = "true"),
                    error |-> error.value,
                    modified_at |-> data.modified_at])

\* failed reading False for an operation that is done
failed_unless_done(operation) == operation.error # None /\ ~operation.done
\* Operation.failed
failed(operation) == operation.error # None
\* completed reading True only for an operation without error
completed_without_error(operation) == operation.done /\ operation.error = None
\* Operation.completed
completed(operation) == operation.done

\* client.operation(id) / Operation.update_status: one GET, deserialized
update_status(w) ==
  IF w.kind = "error" THEN Raise(w.type, None) ELSE Operation_de_json(w)

\* _wait_operation testing `completed` before `failed`
wait_operation_done_first(w, clock, dl) ==
  LET new == update_status(w) IN
  IF new.kind = "raise" THEN new
  ELSE IF new.value = PyNone THEN Raise("AttributeError", None)
  ELSE IF completed(new.value) THEN Return(new.value)
  ELSE IF failed(new.value) THEN Raise("RuntimeError", new.value.error)
  ELSE IF dl = None THEN Raise("TypeError", None)
  ELSE IF clock >= dl[1]
    THEN Raise("OperationDeadlineExceeded", <<new.value.id, new.value.description>>)
  ELSE Return(PyNone)

\* _wait_operation comparing the clock with `>` instead of `>=`
wait_operation_strict(w, clock, dl) ==
  LET new == update_status(w) IN
  IF new.kind = "raise" THEN new
  ELSE IF new.value = PyNone THEN Raise("AttributeError", None)
  ELSE IF failed(new.value) THEN Raise("RuntimeError", new.value.error)
  ELSE IF completed(new.value) THEN Return(new.value)
  ELSE IF dl = None THEN Raise("TypeError", None)
  ELSE IF clock > dl[1]
    THEN Raise("OperationDeadlineExceeded", <<new.value.id, new.value.description>>)
  ELSE Return(PyNone)

\* _wait_operation without the deadline branch
wait_operation_no_deadline(w, clock, dl) ==
  LET new == update_status(w) IN
  IF new.kind = "raise" THEN new
  ELSE IF new.value = PyNone THEN Raise("AttributeError", None)
  ELSE IF failed(new.value) THEN Raise("RuntimeError", new.value.error)
  ELSE IF completed(new.value) THEN Return(new.value)
  ELSE Return(PyNone)

\* _wait_operation catching the transport's error and polling on
wait_operation_swallow(w, clock, dl) ==
  LET new == update_status(w) IN
  IF new.kind = "raise" THEN Return(PyNone)
  ELSE IF new.value = PyNone THEN Raise("AttributeError", None)
  ELSE IF failed(new.value) THEN Raise("RuntimeError", new.value.error)
  ELSE IF completed(new.value) THEN Return(new.value)
  ELSE IF dl = None THEN Raise("TypeError", None)
  ELSE IF clock >= dl[1]
    THEN Raise("OperationDeadlineExceeded", <<new.value.id, new.value.description>>)
  ELSE Return(PyNone)

\* OperationWait._wait_operation after the refresh answered w, the clock
\* reading clock at the deadline check
wait_operation(w, clock, dl) ==
  LET new == update_status(w) IN
  IF new.kind = "raise" THEN new
  ELSE IF new.value = PyNone THEN Raise("AttributeError", None)
  ELSE IF failed(new.value) THEN Raise("RuntimeError", new.value.error)
  ELSE IF completed(new.value) THEN Return(new.value)
  ELSE IF dl = None THEN Raise("TypeError", None)
  ELSE IF clock >= dl[1]
    THEN Raise("OperationDeadlineExceeded", <<new.value.id, new.value.description>>)
  ELSE Return(PyNone)

\* the value _wait_operation leaves in self._operation
refreshed(old, w) ==
  LET new == update_status(w) IN
  IF new.kind = "raise" THEN old ELSE new.value

\* OperationWait.__init__: the deadline
OperationWait_deadline(clock, timeout) ==
  IF timeout # None THEN Some(clock + int(timeout[1])) ELSE None

\* --------------------------------------------------------------- state
Tasks == {"sync", "async"}
Timeouts == {None} \cup {Some(x) : x \in 0..MaxTimeout}
Delays == 0..MaxDelay

VARIABLES
  now,          \* time.time(), in ticks
  timeout,      \* OperationWait(timeout=...)
  delay,        \* OperationWait(delay=...)
  immediate,    \* the server's answer to the mutating call
  served,       \* the server's answers to the refresh calls, in order
  pc,           \* where each dispatcher call stands
  mode,         \* "unset", "forget", "blocking", "cooperative"
  operation,    \* OperationWait._operation
  deadline,     \* OperationWait._deadline
  posts,        \* mutating requests issued
  refreshes,    \* refresh requests issued
  sleeps,       \* sleeps taken
  obs,          \* what each deadline check found, one entry per refresh
  waitResult,   \* how OperationWait.completed / await_complete_async ended
  result        \* how the dispatcher call ended

\* one call through the transport (Request.get / post / delete)
VARIABLES
  method,       \* "GET", "POST" or "DELETE"
  mtries,       \* func_retry: attempts left
  mdelay,       \* func_retry: the next sleep, in seconds
  tpc,          \* where func_retry stands
  attempts,     \* what the network answered to each request sent, in order
  slept,        \* the sleeps func_retry took, in order
  tresult,      \* how the call ended
  cancelResult  \* how cancel_operation, the caller of a POST, ended

\* one deserialization of a response body
VARIABLES
  wire,         \* the JSON body
  decoded       \* what Operation.de_json made of it

\* one batch of cooperative dispatch coroutines awaited in chunks
VARIABLES
  nops,         \* len(todo_list)
  limit,        \* OP_LIMIT
  chunk,        \* index of the chunk last handed to gather, 0 before the first
  bstate,       \* where the batch coroutine stands
  cstate,       \* where each dispatch coroutine stands
  cposts,       \* mutating requests each coroutine issued
  cpolls,       \* times each coroutine was resumed from asyncio.sleep
  cresult,      \* how each coroutine ended
  running       \* the task that holds the loop's thread, 0 between tasks

\* one call of a public dispatcher, from its parameters to its request
VARIABLES
  params,       \* the method called and its arguments
  dpc,          \* where the call stands
  dposts,       \* HTTP requests the call issued
  dexc          \* the exception the call raised, None if none

\* the snapshotter: one batch per configured instance, by counts
VARIABLES
  ninst,        \* len(config.instances)
  ntodo,        \* len(todo_list) of each instance
  qstate,       \* where the batch coroutine of each instance stands
  qtodo,        \* coroutines not yet handed to gather
  qsched,       \* tasks of the current chunk that have not run yet
  qflying       \* operations issued and not yet resolved

pollerVars == <<now, timeout, delay, immediate, served, pc, mode, operation, deadline,
                posts, refreshes, sleeps, obs, waitResult, result>>
transportVars == <<method, mtries, mdelay, tpc, attempts, slept, tresult, cancelResult>>
decodeVars == <<wire, decoded>>
batchVars == <<nops, limit, chunk, bstate, cstate, cposts, cpolls, cresult, running>>
dispatchVars == <<params, dpc, dposts, dexc>>
quotaVars == <<ninst, ntodo, qstate, qtodo, qsched, qflying>>

vars == <<now, timeout, delay, immediate, served, pc, mode, operation, deadline,
          posts, refreshes, sleeps, obs, waitResult, result,
          method, mtries, mdelay, tpc, attempts, slept, tresult, cancelResult,
          wire, decoded,
          nops, limit, chunk, bstate, cstate, cposts, cpolls, cresult, running,
          params, dpc, dposts, dexc,
          ninst, ntodo, qstate, qtodo, qsched, qflying>>

\* what a step of the poller leaves alone
otherThanPoller == <<transportVars, decodeVars, batchVars, dispatchVars, quotaVars>>

PollerInit ==
  /\ now = 0
  /\ timeout \in Timeouts
  /\ delay \in Delays
  /\ immediate \in ImmediateResponses
  /\ served = <<>>
  /\ pc = [t \in Tasks |-> "idle"]
  /\ mode = [t \in Tasks |-> "unset"]
  /\ operation = [t \in Tasks |-> PyNone]
  /\ deadline = [t \in Tasks |-> None]
  /\ posts = [t \in Tasks |-> 0]
  /\ refreshes = [t \in Tasks |-> 0]
  /\ sleeps = [t \in Tasks |-> 0]
  /\ obs = [t \in Tasks |-> <<>>]
  /\ waitResult = [t \in Tasks |-> Pending]
  /\ result = [t \in Tasks |-> Pending]

\* no call through the transport under way
TransportIdle ==
  /\ method = "GET"
  /\ mtries = 0
  /\ mdelay = 0
  /\ tpc = "idle"
  /\ attempts = <<>>
  /\ slept = <<>>
  /\ tresult = Pending
  /\ cancelResult = Pending

\* no body being deserialized
DecodeIdle ==
  /\ wire = BodyEmpty
  /\ decoded = Pending

Coroutines == 1..MaxOps

\* no batch under way
BatchIdle ==
  /\ nops = 0
  /\ limit = 1
  /\ chunk = 0
  /\ bstate = "idle"
  /\ cstate = [c \in Coroutines |-> "none"]
  /\ cposts = [c \in Coroutines |-> 0]
  /\ cpolls = [c \in Coroutines |-> 0]
  /\ cresult = [c \in Coroutines |-> Pending]
  /\ running = 0

Instances == 1..MaxInstances

\* the arguments of no call
NoParams ==
  [method |-> "none", size |-> None, image_id |-> None, snapshot_id |-> None,
   disk_id |-> None, disk_name |-> None, mode |-> None, action |-> "none",
   run_async_await |-> FALSE]

\* no dispatcher call under way
DispatchIdle ==
  /\ params = NoParams
  /\ dpc = "idle"
  /\ dposts = 0
  /\ dexc = None

\* no snapshotter run under way
QuotaIdle ==
  /\ ninst = 0
  /\ ntodo = 0
  /\ qstate = [i \in Instances |-> "none"]
  /\ qtodo = [i \in Instances |-> 0]
  /\ qsched = [i \in Instances |-> 0]
  /\ qflying = [i \in Instances |-> 0]

Init == PollerInit /\ TransportIdle /\ DecodeIdle /\ BatchIdle /\ DispatchIdle /\ QuotaIdle

\* ----------------------------------------------------------- dispatchers
\* Request.post / Request.delete: the parsed body, or the transport's error
request_post(w) ==
  IF w.kind = "error" THEN Raise(w.type, None) ELSE Return(w)

\* _resource_create ignoring await_complete=False
resource_create_always_waits(t) ==
  /\ UNCHANGED otherThanPoller
  /\ t = "sync"
  /\ pc[t] = "idle"
  /\ \E await_complete \in BOOLEAN :
       LET response == request_post(immediate)
           op == IF response.kind = "raise" THEN response
                 ELSE Operation_de_json(response.value)
       IN
       /\ posts' = [posts EXCEPT ![t] = @ + 1]
       /\ IF op.kind = "raise"
            THEN /\ pc' = [pc EXCEPT ![t] = "raised"]
                 /\ result' = [result EXCEPT ![t] = op]
                 /\ UNCHANGED <<mode, operation, deadline>>
          ELSE /\ pc' = [pc EXCEPT ![t] = "loop"]
               /\ mode' = [mode EXCEPT ![t] = IF await_complete THEN "blocking" ELSE "forget"]
               /\ operation' = [operation EXCEPT ![t] = op.value]
               /\ deadline' = [deadline EXCEPT ![t] = OperationWait_deadline(now, timeout)]
               /\ UNCHANGED result
  /\ UNCHANGED <<now, timeout, delay, immediate, served, refreshes, sleeps, obs, waitResult>>

\* YandexCloudClient._resource_create (and _delete_resource,
\* _instance_state_management, _instance_disk_management)
resource_create(t) ==
  /\ UNCHANGED otherThanPoller
  /\ t = "sync"
  /\ pc[t] = "idle"
  /\ \E await_complete \in BOOLEAN :
       LET response == request_post(immediate)
           op == IF response.kind = "raise" THEN response
                 ELSE Operation_de_json(response.value)
       IN
       /\ posts' = [posts EXCEPT ![t] = @ + 1]
       /\ IF op.kind = "raise"
            THEN /\ pc' = [pc EXCEPT ![t] = "raised"]
                 /\ result' = [result EXCEPT ![t] = op]
                 /\ UNCHANGED <<mode, operation, deadline>>
          ELSE IF ~await_complete
            THEN /\ pc' = [pc EXCEPT ![t] = "returned"]
                 /\ mode' = [mode EXCEPT ![t] = "forget"]
                 /\ result' = [result EXCEPT ![t] = op]
                 /\ UNCHANGED <<operation, deadline>>
          ELSE /\ pc' = [pc EXCEPT ![t] = "loop"]
               /\ mode' = [mode EXCEPT ![t] = "blocking"]
               /\ operation' = [operation EXCEPT ![t] = op.value]
               /\ deadline' = [deadline EXCEPT ![t] = OperationWait_deadline(now, timeout)]
               /\ UNCHANGED result
  /\ UNCHANGED <<now, timeout, delay, immediate, served, refreshes, sleeps, obs, waitResult>>

\* a public method called with run_async_await=True: the coroutine object
\* is built, its body has not run
call_async(t) ==
  /\ UNCHANGED otherThanPoller
  /\ t = "async"
  /\ pc[t] = "idle"
  /\ pc' = [pc EXCEPT ![t] = "coroutine"]
  /\ mode' = [mode EXCEPT ![t] = "cooperative"]
  /\ UNCHANGED <<now, timeout, delay, immediate, served, operation, deadline,
                 posts, refreshes, sleeps, obs, waitResult, result>>

\* YandexCloudClient._async_resource_create (and _async_delete_resource,
\* _async_instance_state_management, _async_instance_disk_management), up
\* to the construction of the poller
async_resource_create(t) ==
  /\ UNCHANGED otherThanPoller
  /\ t = "async"
  /\ pc[t] = "coroutine"
  /\ LET response == request_post(immediate)
         op == IF response.kind = "raise" THEN response
               ELSE Operation_de_json(response.value)
     IN
     /\ posts' = [posts EXCEPT ![t] = @ + 1]
     /\ IF op.kind = "raise"
          THEN /\ pc' = [pc EXCEPT ![t] = "raised"]
               /\ result' = [result EXCEPT ![t] = op]
               /\ UNCHANGED <<operation, deadline>>
        ELSE /\ pc' = [pc EXCEPT ![t] = "loop"]
             /\ operation' = [operation EXCEPT ![t] = op.value]
             /\ deadline' = [deadline EXCEPT ![t] = OperationWait_deadline(now, timeout)]
             /\ UNCHANGED result
  /\ UNCHANGED <<now, timeout, delay, immediate, served, mode, refreshes, sleeps,
                 obs, waitResult>>

\* what the dispatcher hands to its caller when the wait ended with out
resource_create_result(out) == out
async_resource_create_result(out) ==
  IF out.kind = "raise" THEN out ELSE Return(PyNone)

dispatcher_result(t, out) ==
  IF t = "sync" THEN resource_create_result(out) ELSE async_resource_create_result(out)

\* ---------------------------------------------------------------- waits
\* the n-th refresh of a task is answered by the n-th entry of served; the
\* server chooses a new answer once the log is exhausted
NextResponse(t) ==
  IF refreshes[t] < Len(served) THEN {served[refreshes[t] + 1]} ELSE Responses

\* what the deadline check of _wait_operation found: "none" when the check
\* was not reached or there is no deadline, "late" when it was not reached
\* because a snapshot read at or past the deadline was terminal
DeadlineObservation(w, clock, dl) ==
  LET new == update_status(w) IN
  IF new.kind = "raise" \/ new.value = PyNone \/ dl = None THEN "none"
  ELSE IF failed(new.value) \/ completed(new.value)
    THEN IF clock >= dl[1] THEN "late" ELSE "none"
  ELSE IF clock >= dl[1] THEN "elapsed" ELSE "before"

\* the wait of t ends with out, and its dispatcher with it
finish(t, out) ==
  /\ pc' = [pc EXCEPT ![t] = IF out.kind = "raise" THEN "raised" ELSE "returned"]
  /\ waitResult' = [waitResult EXCEPT ![t] = out]
  /\ result' = [result EXCEPT ![t] = dispatcher_result(t, out)]

\* `while not self._wait_operation():` an Operation is truthy, None is not
while_test(t, out) ==
  IF out.kind = "raise" THEN finish(t, out)
  ELSE /\ pc' = [pc EXCEPT ![t] = IF out.value # PyNone THEN "final" ELSE "sleep"]
       /\ UNCHANGED <<waitResult, result>>

\* what the caller of _wait_operation does with its outcome
Then(t, at, out) ==
  IF at = "while" THEN while_test(t, out) ELSE finish(t, out)

\* one call of self._wait_operation() by t; the refresh takes d \in L ticks.
\* The caller is the loop condition (at = "while") or the closing return.
wait_operation_call(t, L, at) ==
  IF operation[t] = PyNone
    THEN \* None.update_status(): no request is issued
         /\ Then(t, at, Raise("AttributeError", None))
         /\ UNCHANGED <<now, served, refreshes, operation, obs>>
    ELSE /\ refreshes[t] < MaxRefresh
         /\ \E d \in L : \E w \in NextResponse(t) :
              /\ now' = now + d
              /\ served' = IF refreshes[t] < Len(served) THEN served ELSE Append(served, w)
              /\ refreshes' = [refreshes EXCEPT ![t] = @ + 1]
              /\ operation' = [operation EXCEPT ![t] = refreshed(@, w)]
              /\ obs' = [obs EXCEPT ![t] = Append(@, DeadlineObservation(w, now + d, deadline[t]))]
              /\ Then(t, at, wait_operation(w, now + d, deadline[t]))

\* OperationWait.completed: the loop condition
completed_test(t, L) ==
  /\ UNCHANGED otherThanPoller
  /\ t = "sync"
  /\ pc[t] = "loop"
  /\ wait_operation_call(t, L, "while")
  /\ UNCHANGED <<timeout, delay, immediate, mode, deadline, posts, sleeps>>

\* OperationWait.completed: time.sleep(self._delay), self._delay = int(delay)
completed_sleep(t) ==
  /\ UNCHANGED otherThanPoller
  /\ t = "sync"
  /\ pc[t] = "sleep"
  /\ now' = now + int(delay)
  /\ sleeps' = [sleeps EXCEPT ![t] = @ + 1]
  /\ pc' = [pc EXCEPT ![t] = "loop"]
  /\ UNCHANGED <<timeout, delay, immediate, served, mode, operation, deadline,
                 posts, refreshes, obs, waitResult, result>>

\* OperationWait.completed: `return self._wait_operation()`
completed_return(t, L) ==
  /\ UNCHANGED otherThanPoller
  /\ t = "sync"
  /\ pc[t] = "final"
  /\ wait_operation_call(t, L, "return")
  /\ UNCHANGED <<timeout, delay, immediate, mode, deadline, posts, sleeps>>

\* OperationWait.await_complete_async: the loop condition
await_complete_async_test(t, L) ==
  /\ UNCHANGED otherThanPoller
  /\ t = "async"
  /\ pc[t] = "loop"
  /\ wait_operation_call(t, L, "while")
  /\ UNCHANGED <<timeout, delay, immediate, mode, deadline, posts, sleeps>>

\* OperationWait.await_complete_async: await asyncio.sleep(self._delay)
await_complete_async_sleep(t) ==
  /\ UNCHANGED otherThanPoller
  /\ t = "async"
  /\ pc[t] = "sleep"
  /\ now' = now + int(delay)
  /\ sleeps' = [sleeps EXCEPT ![t] = @ + 1]
  /\ pc' = [pc EXCEPT ![t] = "loop"]
  /\ UNCHANGED <<timeout, delay, immediate, served, mode, operation, deadline,
                 posts, refreshes, obs, waitResult, result>>

\* await_complete_async ending with `return self._operation`
await_complete_async_return_snapshot(t, L) ==
  /\ UNCHANGED otherThanPoller
  /\ t = "async"
  /\ pc[t] = "final"
  /\ finish(t, Return(operation[t]))
  /\ UNCHANGED <<now, served, refreshes, operation, obs>>
  /\ UNCHANGED <<timeout, delay, immediate, mode, deadline, posts, sleeps>>

\* OperationWait.await_complete_async: `return self._wait_operation()`
await_complete_async_return(t, L) ==
  /\ UNCHANGED otherThanPoller
  /\ t = "async"
  /\ pc[t] = "final"
  /\ wait_operation_call(t, L, "return")
  /\ UNCHANGED <<timeout, delay, immediate, mode, deadline, posts, sleeps>>

\* ------------------------------------------------------- specifications
Latencies == 0..MaxLatency
\* a refresh that takes time: the clock advances with every poll
AdvancingLatencies == 1..MaxLatency

Step(t, L) ==
  \/ resource_create(t)
  \/ call_async(t)
  \/ async_resource_create(t)
  \/ completed_test(t, L)
  \/ completed_sleep(t)
  \/ completed_return(t, L)
  \/ await_complete_async_test(t, L)
  \/ await_complete_async_sleep(t)
  \/ await_complete_async_return(t, L)

Next == \E t \in Tasks : Step(t, Latencies)

Spec == Init /\ [][Next]_vars

\* every started call keeps running, and every refresh takes time
LiveNext == \E t \in Tasks : Step(t, AdvancingLatencies)

LiveSpec == Init /\ [][LiveNext]_vars /\ \A t \in Tasks : WF_vars(Step(t, AdvancingLatencies))

\* ------------------------------------------------------------ properties
Finished == {"returned", "raised"}
Waiting == {"loop", "sleep", "final"}

HasError(w) == w.kind = "body" /\ w.error # None
IsPending(w) == w.kind = "body" /\ w.done # "true" /\ w.error = None
IsSucceeded(w) == w.kind = "body" /\ w.done = "true" /\ w.error = None

\* no deadline check of t found the deadline elapsed
DeadlineNotReached(t) == \A i \in 1..Len(obs[t]) : obs[t][i] # "elapsed"

\* C1: a blocking await (OperationWait.completed, the dispatchers called
\* with await_complete=True) that returns, returns an Operation with
\* done = true and error = null: never a pending snapshot, never None.
C1_AwaitReturnsTerminalSuccess ==
  (mode["sync"] = "blocking" /\ pc["sync"] = "returned") =>
     /\ result["sync"].value # PyNone
     /\ result["sync"].value.done
     /\ result["sync"].value.error = None

\* C2: a refresh answered with a non-null error makes the poller raise in
\* that iteration: it is the last refresh of the wait, and the wait has
\* raised RuntimeError carrying the error's code and message; an error on
\* the first poll raises after one refresh and no sleep.
C2_FailureRaisesAtOnce ==
  \A t \in Tasks : \A i \in 1..refreshes[t] :
    HasError(served[i]) =>
      /\ i = refreshes[t]
      /\ pc[t] = "raised"
      /\ waitResult[t].kind = "raise"
      /\ waitResult[t].exc.type = "RuntimeError"
      /\ waitResult[t].exc.payload # None
      /\ waitResult[t].exc.payload[1].code.value = served[i].error[1].code
      /\ waitResult[t].exc.payload[1].message = served[i].error[1].message
      /\ result[t] = waitResult[t]
      /\ (i = 1 => sleeps[t] = 0)

C2_Witness ==
  \E t \in Tasks :
    /\ refreshes[t] = 1
    /\ HasError(served[1])
    /\ pc[t] = "raised"
    /\ waitResult[t].exc.payload[1].code.name = "NOT_FOUND"

\* C3: after k PENDING answers and then SUCCEEDED (the server answering
\* SUCCEEDED from then on), the deadline not reached, a blocking wait has
\* made exactly k+1 refresh calls and k sleeps when it returns the
\* SUCCEEDED snapshot.
C3_ExactRefreshCount ==
  \A k \in 0..(MaxRefresh - 1) :
    ( /\ mode["sync"] = "blocking"
      /\ pc["sync"] \in Finished
      /\ timeout # None
      /\ DeadlineNotReached("sync")
      /\ Len(served) >= k + 1
      /\ \A i \in 1..k : served[i] = BodyPending
      /\ \A i \in (k + 1)..Len(served) : served[i] = BodyDone )
    => /\ pc["sync"] = "returned"
       /\ refreshes["sync"] = k + 1
       /\ sleeps["sync"] = k
       /\ result["sync"] = Operation_de_json(served[k + 1])

\* C4: a refresh answered PENDING under a finite timeout raises
\* OperationDeadlineExceeded(id, description) exactly when the clock read by
\* its check is at or past the deadline; and deadline-exceeded is never
\* raised by a step whose clock is before the deadline.
C4_DeadlineRaisedWhenReached ==
  [][ \A t \in Tasks :
        /\ ( /\ refreshes'[t] = refreshes[t] + 1
             /\ deadline[t] # None
             /\ IsPending(served'[refreshes'[t]]) )
           => ( now' >= deadline[t][1]
                <=> /\ pc'[t] = "raised"
                    /\ waitResult'[t] =
                         Raise("OperationDeadlineExceeded", <<OperationId, Description>>) )
        /\ ( /\ pc[t] # "raised"
             /\ pc'[t] = "raised"
             /\ result'[t].exc.type = "OperationDeadlineExceeded" )
           => (deadline[t] # None /\ now' >= deadline[t][1])
    ]_vars

C4_Witness ==
  \E t \in Tasks :
    /\ pc[t] = "raised"
    /\ waitResult[t] = Raise("OperationDeadlineExceeded", <<OperationId, Description>>)
    /\ refreshes[t] >= 2
    /\ \A i \in 1..refreshes[t] : served[i] = BodyPending

\* C5: with timeout=None a wait whose refreshes all answered PENDING has
\* not raised: it is sleeping or about to poll again.
C5_NoDeadlineKeepsPolling ==
  \A t \in Tasks :
    ( /\ timeout = None
      /\ refreshes[t] >= 1
      /\ \A i \in 1..refreshes[t] : served[i] = BodyPending )
    => pc[t] \in {"loop", "sleep"}

\* C6: with a finite timeout and a clock that advances with every refresh,
\* every wait that has started, blocking or cooperative, eventually returns
\* or raises.
C6_WaitTerminates ==
  \A t \in Tasks :
    (timeout # None /\ pc[t] \in Waiting) ~> (pc[t] \in Finished)

C6_Witness ==
  \E t \in Tasks :
    /\ timeout # None
    /\ pc[t] = "raised"
    /\ waitResult[t] = Raise("OperationDeadlineExceeded", <<OperationId, Description>>)
    /\ refreshes[t] >= 3
    /\ \A i \in 1..refreshes[t] : served[i] = BodyPending

\* the deadline checks of the two waits found the same, refresh by refresh
SameSchedule ==
  \A i \in 1..Len(obs["sync"]) :
    i <= Len(obs["async"]) => obs["sync"][i] = obs["async"][i]

C8_CoroutineYieldsOperation ==
  pc["async"] = "returned" =>
    /\ result["async"] = waitResult["async"]
    /\ result["async"].value # PyNone

\* C9: a refresh that fails with a transport error is the last refresh of
\* its wait, and the wait has raised that same error: not RuntimeError, not
\* OperationDeadlineExceeded, and it did not go on polling.
C9_TransportErrorPropagates ==
  \A t \in Tasks : \A i \in 1..refreshes[t] :
    served[i] \in TransportErrors =>
      /\ i = refreshes[t]
      /\ pc[t] = "raised"
      /\ waitResult[t] = Raise(served[i].type, None)
      /\ result[t] = waitResult[t]

C9_Witness ==
  \E t \in Tasks :
    /\ refreshes[t] >= 2
    /\ served[refreshes[t]] = TransportError("NetworkError")
    /\ pc[t] = "raised"

\* C10: a dispatcher called with await_complete false and run_async_await
\* false has returned the Operation deserialized from the immediate
\* response, having issued no refresh and taken no sleep.
C10_ForgetReturnsImmediate ==
  \A t \in Tasks :
    mode[t] = "forget" =>
      /\ pc[t] = "returned"
      /\ result[t] = Operation_de_json(immediate)
      /\ (immediate = BodyPending =>
            /\ result[t].value.id = OperationId
            /\ ~result[t].value.done
            /\ result[t].value.error = None)
      /\ waitResult[t] = Pending
      /\ posts[t] = 1
      /\ refreshes[t] = 0
      /\ sleeps[t] = 0

C10_Witness ==
  /\ mode["sync"] = "forget"
  /\ pc["sync"] = "returned"
  /\ immediate = BodyPending
  /\ result["sync"].value.kind = "Operation"

\* ------------------------------------------------------------ transport
\* retry(exceptions, tries=4, delay=5, backoff=2)
Tries == 4
RetryDelay == 5
Backoff == 2
\* @retry((NetworkError, TimedOut))
Retryable == {"NetworkError", "TimedOut"}

Methods == {"GET", "POST", "DELETE"}
Mutating == {"POST", "DELETE"}

\* what requests.request does with one request sent
NetTimeout == [kind |-> "timeout"]
NetFailure == [kind |-> "connection"]
NetworkFailures == {NetTimeout, NetFailure}
HttpResponse(status, body) == [kind |-> "response", status |-> status, body |-> body]

\* response bodies: a JSON object with an optional integer code and a
\* message, bytes that are not JSON, JSON that is not an object
JsonObject(code, message) == [kind |-> "object", code |-> code, message |-> message]
NotJson == [kind |-> "not_json"]
NotObject == [kind |-> "not_object"]
ResponseBodies ==
  {JsonObject(None, "m"), JsonObject(Some(5), "m"), JsonObject(Some(99), "m"),
   NotJson, NotObject}
Statuses == {200, 204, 400, 401, 403, 404, 409, 413, 429, 500, 510}
NetAnswers ==
  NetworkFailures \cup {HttpResponse(st, b) : st \in Statuses, b \in ResponseBodies}

IsNon2xx(a) == a.kind = "response" /\ ~(200 <= a.status /\ a.status <= 299)

\* Request._parse of an error body (no 'result' key), then Response.error:
\* the message '<error>: <description>'
parse_error(body) ==
  IF body.kind = "not_json" THEN Raise("YandexCloudError", "Invalid server response")
  ELSE IF body.kind = "not_object" THEN Raise("AttributeError", None)
  ELSE LET error == RpcError(IF body.code = None THEN 2 ELSE body.code[1]) IN
       IF error.kind = "raise" THEN error
       ELSE Return(<<error.value.name, body.message>>)

\* Request._request_wrapper, one request answered a
request_wrapper(a) ==
  IF a.kind = "timeout" THEN Raise("TimedOut", None)
  ELSE IF a.kind = "connection" THEN Raise("NetworkError", None)
  ELSE IF 200 <= a.status /\ a.status <= 299 THEN Return(a)
  ELSE LET parse == parse_error(a.body) IN
       IF parse.kind = "raise" THEN parse
       ELSE LET message == parse.value IN
            IF a.status = 401 THEN Raise("Unauthorized", message)
            ELSE IF a.status = 400 THEN Raise("BadRequest", message)
            ELSE IF a.status = 403 THEN Raise("PermissionDenied", message)
            ELSE IF a.status = 404 THEN Raise("ResourceNotFound", message)
            ELSE IF a.status \in {409, 413} THEN Raise("HTTPError", <<"HTTP", a.status, message>>)
            ELSE IF a.status = 429 THEN Raise("ReourceExhausted", message)
            ELSE IF a.status = 510 THEN Raise("FeatureNotImplemented", message)
            ELSE Raise("HTTPError", <<a.status, message>>)

\* a call of Request.get / post / delete enters func_retry:
\* mtries, mdelay = tries, delay
TransportInit ==
  /\ method \in Methods
  /\ mtries = Tries
  /\ mdelay = RetryDelay
  /\ tpc = IF Tries > 1 THEN "try" ELSE "last"
  /\ attempts = <<>>
  /\ slept = <<>>
  /\ tresult = Pending
  /\ cancelResult = Pending

\* func_retry with `except Exception`: every raise of the request is retried
func_retry_call_retry_all ==
  /\ tpc = "try"
  /\ \E a \in NetAnswers :
       LET out == request_wrapper(a) IN
       /\ attempts' = Append(attempts, a)
       /\ IF out.kind = "return"
            THEN tpc' = "returned" /\ tresult' = out
            ELSE tpc' = "except" /\ UNCHANGED tresult
  /\ UNCHANGED <<method, mtries, mdelay, slept>>
  /\ UNCHANGED <<cancelResult, pollerVars, decodeVars, batchVars, dispatchVars, quotaVars>>

\* func_retry: `return func(*args, **kwargs)` inside `while mtries > 1`
func_retry_call ==
  /\ tpc = "try"
  /\ \E a \in NetAnswers :
       LET out == request_wrapper(a) IN
       /\ attempts' = Append(attempts, a)
       /\ IF out.kind = "return"
            THEN tpc' = "returned" /\ tresult' = out
          ELSE IF out.exc.type \in Retryable
            THEN tpc' = "except" /\ UNCHANGED tresult
          ELSE tpc' = "raised" /\ tresult' = out
  /\ UNCHANGED <<method, mtries, mdelay, slept>>
  /\ UNCHANGED <<cancelResult, pollerVars, decodeVars, batchVars, dispatchVars, quotaVars>>

\* func_retry looping `while mtries > 0`
func_retry_except_while_positive ==
  /\ tpc = "except"
  /\ slept' = Append(slept, mdelay)
  /\ mtries' = mtries - 1
  /\ mdelay' = mdelay * Backoff
  /\ tpc' = IF mtries - 1 > 0 THEN "try" ELSE "last"
  /\ UNCHANGED <<method, attempts, tresult>>
  /\ UNCHANGED <<cancelResult, pollerVars, decodeVars, batchVars, dispatchVars, quotaVars>>

\* func_retry with `mdelay += backoff`
func_retry_except_additive ==
  /\ tpc = "except"
  /\ slept' = Append(slept, mdelay)
  /\ mtries' = mtries - 1
  /\ mdelay' = mdelay + Backoff
  /\ tpc' = IF mtries - 1 > 1 THEN "try" ELSE "last"
  /\ UNCHANGED <<method, attempts, tresult>>
  /\ UNCHANGED <<cancelResult, pollerVars, decodeVars, batchVars, dispatchVars, quotaVars>>

\* func_retry: the except block, then the loop condition
func_retry_except ==
  /\ tpc = "except"
  /\ slept' = Append(slept, mdelay)
  /\ mtries' = mtries - 1
  /\ mdelay' = mdelay * Backoff
  /\ tpc' = IF mtries - 1 > 1 THEN "try" ELSE "last"
  /\ UNCHANGED <<method, attempts, tresult>>
  /\ UNCHANGED <<cancelResult, pollerVars, decodeVars, batchVars, dispatchVars, quotaVars>>

\* func_retry: the closing `return func(*args, **kwargs)`
func_retry_last ==
  /\ tpc = "last"
  /\ \E a \in NetAnswers :
       LET out == request_wrapper(a) IN
       /\ attempts' = Append(attempts, a)
       /\ tpc' = IF out.kind = "return" THEN "returned" ELSE "raised"
       /\ tresult' = out
  /\ UNCHANGED <<method, mtries, mdelay, slept>>
  /\ UNCHANGED <<cancelResult, pollerVars, decodeVars, batchVars, dispatchVars, quotaVars>>

PollerIdle ==
  /\ now = 0
  /\ timeout = None
  /\ delay = 0
  /\ immediate = BodyPending
  /\ served = <<>>
  /\ pc = [t \in Tasks |-> "idle"]
  /\ mode = [t \in Tasks |-> "unset"]
  /\ operation = [t \in Tasks |-> PyNone]
  /\ deadline = [t \in Tasks |-> None]
  /\ posts = [t \in Tasks |-> 0]
  /\ refreshes = [t \in Tasks |-> 0]
  /\ sleeps = [t \in Tasks |-> 0]
  /\ obs = [t \in Tasks |-> <<>>]
  /\ waitResult = [t \in Tasks |-> Pending]
  /\ result = [t \in Tasks |-> Pending]

\* the exception classes of error.py, all derived from YandexCloudError
YandexCloudErrors ==
  {"YandexCloudError", "InvalidToken", "Unauthorized", "NetworkError", "BadRequest",
   "ResourceNotFound", "TooManyArguments", "CertificateError", "PermissionDenied",
   "FeatureNotImplemented", "ReourceExhausted", "OperationDeadlineExceeded",
   "HTTPError", "TimedOut"}

\* Request.post once _request_wrapper ended with out: the body of a 2xx
\* response goes through _parse, whose .result is the parsed body
post(out) ==
  IF out.kind = "raise" THEN out
  ELSE LET parse == parse_error(out.value.body) IN
       IF parse.kind = "raise" THEN parse ELSE Return(out.value.body)

\* YandexCloudClient.cancel_operation (Operation.cancel), its POST ended
\* with out
cancel_operation(out) ==
  LET response == post(out) IN
  IF response.kind = "raise"
    THEN IF response.exc.type \in YandexCloudErrors
           THEN Raise("BadRequest", "Operation can't be canceled.")
           ELSE response
  ELSE Return([kind |-> "Operation", data |-> response.value])

\* cancel_operation from the end of its POST to its own end
cancel_operation_call ==
  /\ method = "POST"
  /\ tpc \in {"returned", "raised"}
  /\ cancelResult = Pending
  /\ cancelResult' = cancel_operation(tresult)
  /\ UNCHANGED <<method, mtries, mdelay, tpc, attempts, slept, tresult>>
  /\ UNCHANGED <<pollerVars, decodeVars, batchVars, dispatchVars, quotaVars>>

TransportNext ==
  func_retry_call \/ func_retry_except \/ func_retry_last \/ cancel_operation_call

\* only this part of the program runs
TransportSpecInit ==
  PollerIdle /\ TransportInit /\ DecodeIdle /\ BatchIdle /\ DispatchIdle /\ QuotaIdle

TransportSpec == TransportSpecInit /\ [][TransportNext]_vars

\* ------------------------------------------------- transport properties
TransportFinished == tpc \in {"returned", "raised"}
IsNetworkFailure(a) == a \in NetworkFailures
Is2xx(a) == a.kind = "response" /\ 200 <= a.status /\ a.status <= 299
LastAttempt == attempts[Len(attempts)]
NetworkErrorOf(a) ==
  IF a = NetTimeout THEN Raise("TimedOut", None) ELSE Raise("NetworkError", None)

C14_RetrySchedule ==
  /\ Len(attempts) <= 4
  /\ Len(slept) <= 3
  /\ slept = SubSeq(<<5, 10, 20>>, 1, Len(slept))
  /\ tpc \in {"try", "last"} =>
       /\ Len(slept) = Len(attempts)
       /\ \A i \in 1..Len(attempts) : IsNetworkFailure(attempts[i])
  /\ tpc = "except" =>
       /\ Len(attempts) \in 1..3
       /\ Len(slept) = Len(attempts) - 1
       /\ \A i \in 1..Len(attempts) : IsNetworkFailure(attempts[i])
  /\ TransportFinished =>
       /\ Len(attempts) >= 1
       /\ Len(slept) = Len(attempts) - 1
       /\ \A i \in 1..(Len(attempts) - 1) : IsNetworkFailure(attempts[i])
       /\ Is2xx(LastAttempt) <=> tpc = "returned"
       /\ tpc = "returned" => tresult = Return(LastAttempt)
       /\ IsNetworkFailure(LastAttempt) =>
            /\ Len(attempts) = 4
            /\ tresult = NetworkErrorOf(LastAttempt)

C14_Witness ==
  /\ tpc = "raised"
  /\ Len(attempts) = 4
  /\ slept = <<5, 10, 20>>
  /\ tresult = Raise("TimedOut", None)

\* C15: a non-2xx response is never retried: it is the last request the
\* call sends, whichever attempt it answers, and what the request raised
\* for it is raised to the caller as it is.
C15_StatusErrorNotRetried ==
  \A i \in 1..Len(attempts) :
    IsNon2xx(attempts[i]) =>
      /\ i = Len(attempts)
      /\ tpc = "raised"
      /\ tresult = request_wrapper(attempts[i])
      /\ tresult.exc.type \notin Retryable

C15_Witness ==
  /\ tpc = "raised"
  /\ Len(attempts) = 3
  /\ attempts[3] = HttpResponse(404, JsonObject(Some(5), "m"))
  /\ tresult.exc.type = "ResourceNotFound"

\* the typed error the status alone selects
StatusError(status) ==
  CASE status = 401 -> "Unauthorized"
    [] status = 400 -> "BadRequest"
    [] status = 403 -> "PermissionDenied"
    [] status = 404 -> "ResourceNotFound"
    [] status = 429 -> "ReourceExhausted"
    [] status = 510 -> "FeatureNotImplemented"
    [] OTHER -> "HTTPError"

\* C16: for every non-2xx response, whatever its body, the call raises
\* the typed error its status selects; it never returns normally and
\* never raises anything else.
C16_TypedErrorByStatusAlone ==
  (TransportFinished /\ IsNon2xx(LastAttempt)) =>
    /\ tpc = "raised"
    /\ tresult.exc.type = StatusError(LastAttempt.status)

\* ------------------------------------------------------ deserialization
Codes == 0..MaxCode
WireErrors == {None} \cup {Some([code |-> c, message |-> "x"]) : c \in Codes}
WireBodies ==
  {Body(d, e, r) : d \in {"absent", "true", "false"}, e \in WireErrors, r \in {1, 2}}
    \cup {BodyEmpty}

DecodeInit ==
  /\ wire \in WireBodies
  /\ decoded = Pending

\* Operation.de_json(wire, client)
Operation_de_json_call ==
  /\ decoded = Pending
  /\ decoded' = Operation_de_json(wire)
  /\ UNCHANGED wire
  /\ UNCHANGED <<pollerVars, transportVars, batchVars, dispatchVars, quotaVars>>

\* only this part of the program runs
DecodeSpecInit ==
  PollerIdle /\ TransportIdle /\ DecodeInit /\ BatchIdle /\ DispatchIdle /\ QuotaIdle

DecodeSpec == DecodeSpecInit /\ [][Operation_de_json_call]_vars

\* ------------------------------------------- deserialization properties
DecodedOperation == decoded.kind = "return" /\ decoded.value # PyNone

\* C17: completed is true iff done is true and failed is true iff error
\* is non-null, each whatever the other field is.
C17_CompletedIffDoneFailedIffError ==
  DecodedOperation =>
    /\ completed(decoded.value) <=> decoded.value.done
    /\ completed(decoded.value) <=> wire.done = "true"
    /\ failed(decoded.value) <=> decoded.value.error # None
    /\ failed(decoded.value) <=> wire.error # None

C17_Witness ==
  /\ DecodedOperation
  /\ wire.done = "true"
  /\ wire.error # None
  /\ completed(decoded.value)
  /\ failed(decoded.value)

\* C19: for each code 1..16 the member RpcError makes of the integer has
\* that integer as its value; no two integers give the same name, and no
\* two names of the enum stand for the same integer.
C19_RpcErrorRoundTrip ==
  /\ \A n \in 1..16 : RpcError(n).kind = "return" /\ RpcError(n).value.value = n
  /\ \A a, b \in 1..16 : RpcError(a).value.name = RpcError(b).value.name => a = b
  /\ \A i, k \in DOMAIN RpcErrorMembers :
       (RpcErrorMembers[i].value = RpcErrorMembers[k].value
          \/ RpcErrorMembers[i].name = RpcErrorMembers[k].name) => i = k
  /\ (DecodedOperation /\ wire.error # None) =>
       decoded.value.error[1].code.value = wire.error[1].code

C19_Witness ==
  /\ DecodedOperation
  /\ wire.error = Some([code |-> 16, message |-> "x"])
  /\ decoded.value.error[1].code = [name |-> "UNAUTHENTICATED", value |-> 16]

\* C20: deserializing an Operation whose error code is outside 1..16
\* does not raise and yields an Operation whose failed is true.
C20_UnknownCodeDeserializes ==
  (decoded # Pending /\ wire # BodyEmpty /\ wire.error # None
     /\ wire.error[1].code \notin 1..16) =>
    /\ decoded.kind = "return"
    /\ failed(decoded.value)

\* ------------------------------------------------- snapshot properties
IsOperation(v) == v # PyNone
DoneWithError(v) == IsOperation(v) /\ v.done /\ v.error # None

todo_list == [i \in 1..nops |-> i]

Min(a, b) == IF a <= b THEN a ELSE b

\* list_chunks(lst, n): lst[i:i + n] for i in range(0, len(lst), n)
list_chunks(lst, n) ==
  [j \in 1..((Len(lst) + n - 1) \div n) |->
     SubSeq(lst, (j - 1) * n + 1, Min(j * n, Len(lst)))]

\* what snapshot_cleaner / snapshot_spawner hand to gather, call by call:
\* the chunks when len(todo_list) > OP_LIMIT, else the whole list
Chunks == IF nops > limit THEN list_chunks(todo_list, limit) ELSE <<todo_list>>

Members(j) == {Chunks[j][i] : i \in 1..Len(Chunks[j])}
ChunkOf(c) == CHOOSE j \in 1..Len(Chunks) : c \in Members(j)

\* the answers a refresh of a batched operation gets
BatchResponses == {BodyPending, BodyDone, BodyFailed, TransportError("NetworkError")}

BatchInit ==
  /\ nops \in 2..MaxOps
  /\ limit \in 1..MaxOps
  /\ chunk = 0
  /\ bstate = "for"
  /\ cstate = [c \in Coroutines |-> IF c <= nops THEN "created" ELSE "none"]
  /\ cposts = [c \in Coroutines |-> 0]
  /\ cpolls = [c \in Coroutines |-> 0]
  /\ cresult = [c \in Coroutines |-> Pending]
  /\ running = 0

\* the deadline check of a batched wait: the deadline has passed (e) or not
BatchDeadline == Some(1)
BatchClock(e) == IF e THEN 1 ELSE 0

\* the task c leaves the loop's thread: suspended in asyncio.sleep, or
\* ended with out
task_left(c, st, out) ==
  /\ cstate' = [cstate EXCEPT ![c] = st]
  /\ cresult' = [cresult EXCEPT ![c] = out]
  /\ running' = 0

\* asyncio.gather(*todo_list) called inside the loop over the chunks
gather_todo_list ==
  /\ running = 0
  /\ bstate = "for"
  /\ chunk < Len(Chunks)
  /\ chunk' = chunk + 1
  /\ bstate' = "await"
  /\ cstate' = [c \in Coroutines |->
                  IF cstate[c] = "created" THEN "scheduled" ELSE cstate[c]]
  /\ UNCHANGED <<nops, limit, cposts, cpolls, cresult, running>>
  /\ UNCHANGED <<pollerVars, transportVars, decodeVars, dispatchVars, quotaVars>>

\* `await asyncio.gather(*chunk)`: every coroutine of the next chunk
\* becomes a task of the loop, in the order given, and the batch coroutine
\* is suspended
gather ==
  /\ running = 0
  /\ bstate = "for"
  /\ chunk < Len(Chunks)
  /\ chunk' = chunk + 1
  /\ bstate' = "await"
  /\ cstate' = [c \in Coroutines |->
                  IF c <= nops /\ c \in Members(chunk + 1) THEN "scheduled" ELSE cstate[c]]
  /\ UNCHANGED <<nops, limit, cposts, cpolls, cresult, running>>
  /\ UNCHANGED <<pollerVars, transportVars, decodeVars, dispatchVars, quotaVars>>

\* the mutating call awaited: the task gives up the thread while the
\* request is under way
async_dispatch_start_yielding(c) ==
  /\ running = 0
  /\ cstate[c] = "scheduled"
  /\ \A d \in Coroutines : d < c => cstate[d] # "scheduled"
  /\ cposts' = [cposts EXCEPT ![c] = @ + 1]
  /\ \E im \in ImmediateResponses :
       LET response == request_post(im)
           op == IF response.kind = "raise" THEN response
                 ELSE Operation_de_json(response.value)
       IN
       IF op.kind = "raise" THEN task_left(c, "raised", op)
       ELSE IF op.value = PyNone
         THEN task_left(c, "raised", Raise("AttributeError", None))
       ELSE /\ cstate' = [cstate EXCEPT ![c] = "loop"]
            /\ running' = 0
            /\ UNCHANGED cresult
  /\ UNCHANGED <<nops, limit, chunk, bstate, cpolls>>
  /\ UNCHANGED <<pollerVars, transportVars, decodeVars, dispatchVars, quotaVars>>

\* the tasks of a gather started in any order
async_dispatch_start_any_order(c) ==
  /\ running = 0
  /\ cstate[c] = "scheduled"
  /\ cposts' = [cposts EXCEPT ![c] = @ + 1]
  /\ \E im \in ImmediateResponses :
       LET response == request_post(im)
           op == IF response.kind = "raise" THEN response
                 ELSE Operation_de_json(response.value)
       IN
       IF op.kind = "raise" THEN task_left(c, "raised", op)
       ELSE IF op.value = PyNone
         THEN task_left(c, "raised", Raise("AttributeError", None))
       ELSE /\ cstate' = [cstate EXCEPT ![c] = "loop"]
            /\ running' = c
            /\ UNCHANGED cresult
  /\ UNCHANGED <<nops, limit, chunk, bstate, cpolls>>
  /\ UNCHANGED <<pollerVars, transportVars, decodeVars, dispatchVars, quotaVars>>

\* the first run of a task, taken in the order gather scheduled them:
\* _async_delete_resource / _async_resource_create issue the mutating call,
\* deserialize the answer and build the poller, all without an await. A
\* None operation makes the first _wait_operation raise before any request.
async_dispatch_start(c) ==
  /\ running = 0
  /\ cstate[c] = "scheduled"
  /\ \A d \in Coroutines : d < c => cstate[d] # "scheduled"
  /\ cposts' = [cposts EXCEPT ![c] = @ + 1]
  /\ \E im \in ImmediateResponses :
       LET response == request_post(im)
           op == IF response.kind = "raise" THEN response
                 ELSE Operation_de_json(response.value)
       IN
       IF op.kind = "raise" THEN task_left(c, "raised", op)
       ELSE IF op.value = PyNone
         THEN task_left(c, "raised", Raise("AttributeError", None))
       ELSE /\ cstate' = [cstate EXCEPT ![c] = "loop"]
            /\ running' = c
            /\ UNCHANGED cresult
  /\ UNCHANGED <<nops, limit, chunk, bstate, cpolls>>
  /\ UNCHANGED <<pollerVars, transportVars, decodeVars, dispatchVars, quotaVars>>

\* a task resumed from `await asyncio.sleep(self._delay)`; the tasks that
\* are ready run before the loop looks at its timers
async_dispatch_resume(c) ==
  /\ running = 0
  /\ cstate[c] = "sleeping"
  /\ \A d \in Coroutines : cstate[d] # "scheduled"
  /\ cpolls[c] < MaxPolls
  /\ cpolls' = [cpolls EXCEPT ![c] = @ + 1]
  /\ cstate' = [cstate EXCEPT ![c] = "loop"]
  /\ running' = c
  /\ UNCHANGED <<nops, limit, chunk, bstate, cposts, cresult>>
  /\ UNCHANGED <<pollerVars, transportVars, decodeVars, dispatchVars, quotaVars>>

\* await_complete_async: `while not self._wait_operation():`, then the
\* sleep, or the end of the loop
async_dispatch_test(c) ==
  /\ running = c
  /\ cstate[c] = "loop"
  /\ \E w \in BatchResponses : \E e \in BOOLEAN :
       LET out == wait_operation(w, BatchClock(e), BatchDeadline) IN
       IF out.kind = "raise" THEN task_left(c, "raised", out)
       ELSE IF out.value = PyNone THEN task_left(c, "sleeping", Pending)
       ELSE /\ cstate' = [cstate EXCEPT ![c] = "closing"]
            /\ UNCHANGED <<cresult, running>>
  /\ UNCHANGED <<nops, limit, chunk, bstate, cposts, cpolls>>
  /\ UNCHANGED <<pollerVars, transportVars, decodeVars, dispatchVars, quotaVars>>

\* await_complete_async: `return self._wait_operation()`, and the end of
\* the dispatch coroutine
async_dispatch_closing(c) ==
  /\ running = c
  /\ cstate[c] = "closing"
  /\ \E w \in BatchResponses : \E e \in BOOLEAN :
       LET out == wait_operation(w, BatchClock(e), BatchDeadline) IN
       IF out.kind = "raise" THEN task_left(c, "raised", out)
       ELSE task_left(c, "returned", async_resource_create_result(out))
  /\ UNCHANGED <<nops, limit, chunk, bstate, cposts, cpolls>>
  /\ UNCHANGED <<pollerVars, transportVars, decodeVars, dispatchVars, quotaVars>>

\* gather handing back as soon as one of its tasks has returned
gather_return_first ==
  /\ running = 0
  /\ bstate = "await"
  /\ \E c \in Members(chunk) : cstate[c] = "returned"
  /\ \A c \in Members(chunk) : cstate[c] # "raised"
  /\ bstate' = IF chunk < Len(Chunks) THEN "for" ELSE "returned"
  /\ UNCHANGED <<nops, limit, chunk, cstate, cposts, cpolls, cresult, running>>
  /\ UNCHANGED <<pollerVars, transportVars, decodeVars, dispatchVars, quotaVars>>

\* gather returns once every task of the chunk has returned; the loop
\* goes on to the next chunk, or the batch coroutine ends
gather_return ==
  /\ running = 0
  /\ bstate = "await"
  /\ \A c \in Members(chunk) : cstate[c] = "returned"
  /\ bstate' = IF chunk < Len(Chunks) THEN "for" ELSE "returned"
  /\ UNCHANGED <<nops, limit, chunk, cstate, cposts, cpolls, cresult, running>>
  /\ UNCHANGED <<pollerVars, transportVars, decodeVars, dispatchVars, quotaVars>>

\* gather (return_exceptions=False) re-raises the exception of a task; the
\* batch coroutine has no handler and ends with it, its other tasks are
\* left as they are
gather_raise ==
  /\ running = 0
  /\ bstate = "await"
  /\ \E c \in Members(chunk) : cstate[c] = "raised"
  /\ bstate' = "raised"
  /\ UNCHANGED <<nops, limit, chunk, cstate, cposts, cpolls, cresult, running>>
  /\ UNCHANGED <<pollerVars, transportVars, decodeVars, dispatchVars, quotaVars>>

BatchNext ==
  \/ gather
  \/ \E c \in Coroutines : async_dispatch_start(c)
  \/ \E c \in Coroutines : async_dispatch_resume(c)
  \/ \E c \in Coroutines : async_dispatch_test(c)
  \/ \E c \in Coroutines : async_dispatch_closing(c)
  \/ gather_return
  \/ gather_raise

\* only this part of the program runs
BatchSpecInit ==
  PollerIdle /\ TransportIdle /\ DecodeIdle /\ BatchInit /\ DispatchIdle /\ QuotaIdle

BatchSpec == BatchSpecInit /\ [][BatchNext]_vars

\* ------------------------------------------------------ batch properties
InFlight == {c \in Coroutines : cstate[c] \in {"scheduled", "loop", "sleeping", "closing"}}
Resolved(c) == cstate[c] \in {"returned", "raised"}
Batched == {c \in Coroutines : c <= nops}

C13_NextChunkAfterPreviousResolved ==
  \A c, d \in Batched :
    (ChunkOf(d) < ChunkOf(c) /\ cposts[c] > 0) => Resolved(d)

C13_Witness ==
  /\ nops > limit
  /\ \E c, d \in Batched :
       /\ ChunkOf(d) < ChunkOf(c)
       /\ cposts[c] > 0
       /\ cstate[c] = "sleeping"
       /\ cpolls[d] >= 1
       /\ Resolved(d)

\* ---------------------------------------------------- interval properties
\* C21: the poller never sleeps a non-positive interval: whatever delay it
\* was built with, every sleep between two refreshes of a wait has
\* positive length.
C21_SleepsArePositive ==
  [][ \A t \in Tasks : sleeps'[t] = sleeps[t] + 1 => now' > now ]_vars

\* C22: with a timeout T and a delay D, T >= D > 0, sub-second values
\* included, a wait whose refreshes are all answered PENDING raises
\* deadline-exceeded after at least 2 and at most T/D + 1 refresh calls.
C22_RefreshCountWithinBounds ==
  \A t \in Tasks :
    ( /\ timeout # None
      /\ delay > 0
      /\ timeout[1] >= delay
      /\ refreshes[t] >= 1
      /\ \A i \in 1..refreshes[t] : served[i] = BodyPending )
    => /\ refreshes[t] * delay <= timeout[1] + delay
       /\ pc[t] \in Finished =>
            /\ waitResult[t] = Raise("OperationDeadlineExceeded", <<OperationId, Description>>)
            /\ refreshes[t] >= 2

\* ------------------------------------------------------ cancel properties
\* C23: Operation.cancel returns the Operation made of the response when
\* its request succeeded, and raises BadRequest whenever the request
\* failed; it never returns normally after a failed request.
C23_CancelFailureIsBadRequest ==
  cancelResult # Pending =>
    /\ cancelResult.kind = "return" =>
         /\ Is2xx(LastAttempt)
         /\ cancelResult = Return([kind |-> "Operation", data |-> LastAttempt.body])
    /\ ~Is2xx(LastAttempt) =>
         cancelResult = Raise("BadRequest", "Operation can't be canceled.")

\* ---------------------------------------------------- sequence properties
\* C24: within one wait the events go refresh, check, then (sleep,
\* refresh, check) repeated: the refreshes made are one more than the
\* sleeps taken, or as many while a sleep is over and its refresh not yet
\* made, and a wait about to sleep has just found PENDING before the
\* deadline.
C24_RefreshCheckSleepSequence ==
  \A t \in Tasks :
    /\ sleeps[t] <= refreshes[t]
    /\ refreshes[t] <= sleeps[t] + 1
    /\ pc[t] = "sleep" =>
         /\ refreshes[t] = sleeps[t] + 1
         /\ obs[t][Len(obs[t])] = "before"

\* -------------------------------------------------- scheduling properties
\* a task that has issued its mutating call or been resumed and has not
\* yet finished or gone to sleep
MidRun(c) == cstate[c] \in {"loop", "closing"}

\* C25: a cooperative task is suspended only at its inter-poll sleep:
\* while a task is between its mutating call or a refresh and the end of
\* the check that finishes it or sends it to sleep, no other task and not
\* the batch coroutine takes a step.
C25_SuspendedOnlyAtSleep ==
  [][ \A c \in Coroutines :
        MidRun(c) =>
          /\ \A d \in Coroutines \ {c} :
               /\ cstate'[d] = cstate[d]
               /\ cposts'[d] = cposts[d]
               /\ cpolls'[d] = cpolls[d]
          /\ bstate' = bstate
          /\ chunk' = chunk
    ]_vars

C25_Witness ==
  \E c, d \in Coroutines :
    /\ c # d
    /\ cstate[c] = "closing"
    /\ cpolls[c] >= 1
    /\ cstate[d] = "sleeping"
    /\ cpolls[d] < MaxPolls

\* C29: a dispatch coroutine that was created, or handed to gather and not
\* yet run, has issued no request; it issues its one mutating call when
\* it first runs, a coroutine never awaited issues none, and the
\* coroutines of one gather issue their mutating calls in the order they
\* were passed.
C29_MutatingCallAtFirstRunInOrder ==
  /\ \A c \in Batched :
       /\ cstate[c] \in {"created", "scheduled"} => cposts[c] = 0
       /\ cstate[c] \notin {"created", "scheduled"} => cposts[c] = 1
  /\ \A c, d \in Batched :
       (ChunkOf(c) = ChunkOf(d) /\ d < c /\ cposts[c] > 0) => cposts[d] > 0

C29_Witness ==
  /\ nops = 3
  /\ limit = 2
  /\ bstate = "raised"
  /\ cposts[1] = 1
  /\ cposts[2] = 1
  /\ cstate[3] = "created"
  /\ cposts[3] = 0


\* ------------------------------------------------- precedence properties
\* C26: terminal success takes precedence over the deadline: when a refresh
\* of a wait returned a snapshot with done = true and error = null while
\* the clock was at or past the deadline, the wait, once it ends, has
\* returned that snapshot and has not raised deadline-exceeded.
C26_SuccessBeatsDeadline ==
  \A t \in Tasks : \A i \in 1..refreshes[t] :
    (IsSucceeded(served[i]) /\ obs[t][i] = "late" /\ pc[t] \in Finished)
      => waitResult[t] = Return(Operation_de_json(served[i]).value)

\* C28: once a refresh of a wait has returned a snapshot with done = true
\* and error = null, that refresh is the last one of the wait, and the
\* wait, once it ends, has returned that snapshot.
C28_SuccessEndsTheWait ==
  \A t \in Tasks : \A i \in 1..refreshes[t] :
    IsSucceeded(served[i]) =>
      /\ refreshes[t] = i
      /\ pc[t] \in Finished => waitResult[t] = Return(Operation_de_json(served[i]).value)


\* ------------------------------------------------------------ payloads
\* constants.MIN_DISK_SIZE and constants.MAX_DISK_SIZE, in units of the
\* model: only their order matters to the validators
MIN_DISK_SIZE == 2
MAX_DISK_SIZE == 4
\* constants.DISK_MODES
DISK_MODES == {"READ_ONLY", "READ_WRITE"}

\* sizes below, within and above the bounds
DiskSizes == (MIN_DISK_SIZE - 1)..(MAX_DISK_SIZE + 1)
\* the modes a caller passes
ModeArguments == {"ro", "rw", "READ_ONLY", "READ_WRITE", "read_only", "x"}
\* an identifier, or none
IdArguments == {None, Some("id")}

\* helpers.disk_mode_converter
disk_mode_converter(m) ==
  IF m = "ro" THEN "READ_ONLY" ELSE IF m = "rw" THEN "READ_WRITE" ELSE m

\* DiskSpec._validate accepting every size above the minimum
DiskSpec_validate_no_maximum(p) ==
  IF p.image_id # None /\ p.snapshot_id # None THEN Raise("TooManyArguments", None)
  ELSE IF p.size = None THEN Raise("TypeError", None)
  ELSE IF p.size[1] < MIN_DISK_SIZE THEN Raise("ValueError", None)
  ELSE Return(p)

\* DiskSpec.__init__ / DiskSpec._validate, as DiskSpec.prepare runs them
DiskSpec_validate(p) ==
  IF p.image_id # None /\ p.snapshot_id # None THEN Raise("TooManyArguments", None)
  ELSE IF p.size = None THEN Raise("TypeError", None)
  ELSE IF p.size[1] < MIN_DISK_SIZE \/ p.size[1] > MAX_DISK_SIZE THEN Raise("ValueError", None)
  ELSE Return(p)

\* AttachedDiskSpec.__init__ / AttachedDiskSpec._validate
AttachedDiskSpec_validate(p) ==
  LET m == IF p.mode # None THEN Some(disk_mode_converter(p.mode[1])) ELSE None IN
  IF p.image_id # None /\ p.snapshot_id # None THEN Raise("TooManyArguments", None)
  ELSE IF m # None /\ m[1] \notin DISK_MODES THEN Raise("ValueError", None)
  ELSE IF p.size # None /\ (p.size[1] < MIN_DISK_SIZE \/ p.size[1] > MAX_DISK_SIZE)
    THEN Raise("ValueError", None)
  ELSE Return([p EXCEPT !.mode = m])

\* instance_detach_disk, up to its choice of helper: `data` stays unbound
\* when neither disk_id nor disk_name is given
instance_detach_disk_data(p) ==
  IF p.disk_id # None /\ p.disk_name # None THEN Raise("TooManyArguments", None)
  ELSE IF p.disk_id = None /\ p.disk_name = None THEN Raise("UnboundLocalError", None)
  ELSE Return(p)

\* the ACTIONS tuple of the helper a call ends in; _resource_create has none
helper_ACTIONS(p) ==
  IF p.method = "_instance_state_management" THEN {"start", "restart", "stop"}
  ELSE IF p.method = "create_disk" THEN {p.action}
  ELSE {"detachDisk", "attachDisk"}

\* `if action not in ACTIONS: raise TypeError`
action_check(p) ==
  IF p.action \notin helper_ACTIONS(p) THEN Raise("TypeError", None) ELSE Return(p)

\* what a public method does before it chooses between the blocking and the
\* cooperative helper
prepare(p) ==
  IF p.method = "create_disk" THEN DiskSpec_validate(p)
  ELSE IF p.method = "instance_attach_new_disk" THEN AttachedDiskSpec_validate(p)
  ELSE IF p.method = "instance_detach_disk" THEN instance_detach_disk_data(p)
  ELSE Return(p)

\* the calls made: the three public methods with their own action, and the
\* two management helpers with any action
PublicCalls ==
  [method : {"create_disk"}, size : {None} \cup {Some(n) : n \in DiskSizes},
   image_id : IdArguments, snapshot_id : IdArguments, disk_id : {None},
   disk_name : {None}, mode : {None}, action : {"none"}, run_async_await : BOOLEAN]
  \cup
  [method : {"instance_attach_new_disk"}, size : {None} \cup {Some(n) : n \in DiskSizes},
   image_id : IdArguments, snapshot_id : IdArguments, disk_id : {None},
   disk_name : {None}, mode : {None} \cup {Some(m) : m \in ModeArguments},
   action : {"attachDisk"}, run_async_await : BOOLEAN]
  \cup
  [method : {"instance_detach_disk"}, size : {None}, image_id : {None},
   snapshot_id : {None}, disk_id : IdArguments, disk_name : IdArguments,
   mode : {None}, action : {"detachDisk"}, run_async_await : BOOLEAN]

HelperCalls ==
  [method : {"_instance_state_management", "_instance_disk_management"},
   size : {None}, image_id : {None}, snapshot_id : {None}, disk_id : {None},
   disk_name : {None}, mode : {None},
   action : {"start", "stop", "attachDisk", "detachDisk", "reboot"},
   run_async_await : BOOLEAN]

DispatchInit ==
  /\ params \in PublicCalls \cup HelperCalls
  /\ dpc = "idle"
  /\ dposts = 0
  /\ dexc = None

\* the call has raised
dispatch_raise(out) ==
  /\ dpc' = "raised"
  /\ dexc' = Some(out.exc.type)
  /\ UNCHANGED <<params, dposts>>

\* self._request.post(url, json=data): the request goes out
dispatch_post ==
  /\ dpc' = "sent"
  /\ dposts' = dposts + 1
  /\ UNCHANGED <<params, dexc>>

\* a blocking call: payload, then the helper's check of the action, then the
\* POST
blocking_call ==
  /\ UNCHANGED <<pollerVars, transportVars, decodeVars, batchVars, quotaVars>>
  /\ dpc = "idle"
  /\ ~params.run_async_await
  /\ LET data == prepare(params) IN
     IF data.kind = "raise" THEN dispatch_raise(data)
     ELSE LET checked == action_check(params) IN
          IF checked.kind = "raise" THEN dispatch_raise(checked) ELSE dispatch_post

\* a call with run_async_await=True: payload, then the coroutine object of
\* the async helper is returned, none of its body run
cooperative_call ==
  /\ UNCHANGED <<pollerVars, transportVars, decodeVars, batchVars, quotaVars>>
  /\ dpc = "idle"
  /\ params.run_async_await
  /\ LET data == prepare(params) IN
     IF data.kind = "raise" THEN dispatch_raise(data)
     ELSE /\ dpc' = "coroutine"
          /\ UNCHANGED <<params, dposts, dexc>>

\* the coroutine runs for the first time: the helper's check of the action,
\* then the POST
coroutine_first_run ==
  /\ UNCHANGED <<pollerVars, transportVars, decodeVars, batchVars, quotaVars>>
  /\ dpc = "coroutine"
  /\ dposts = 0
  /\ LET checked == action_check(params) IN
     IF checked.kind = "raise" THEN dispatch_raise(checked) ELSE dispatch_post

DispatchSpecInit ==
  PollerIdle /\ TransportIdle /\ DecodeIdle /\ BatchIdle /\ DispatchInit /\ QuotaIdle

DispatchNext == blocking_call \/ cooperative_call \/ coroutine_first_run

DispatchSpec == DispatchSpecInit /\ [][DispatchNext]_vars

\* ------------------------------------------------- validation properties
\* the payload fails validation, in the terms of the arguments
SizeOutOfBounds(p) ==
  /\ p.method \in {"create_disk", "instance_attach_new_disk"}
  /\ p.size # None
  /\ (p.size[1] < MIN_DISK_SIZE \/ p.size[1] > MAX_DISK_SIZE)
ImageAndSnapshot(p) == p.image_id # None /\ p.snapshot_id # None
DiskIdAndName(p) == p.disk_id # None /\ p.disk_name # None
InvalidMode(p) ==
  p.mode # None /\ p.mode[1] \notin {"ro", "rw", "READ_ONLY", "READ_WRITE"}
UnsupportedAction(p) ==
  \/ p.method = "_instance_state_management" /\ p.action \notin {"start", "restart", "stop"}
  \/ p.method = "_instance_disk_management" /\ p.action \notin {"detachDisk", "attachDisk"}
InvalidPayload(p) ==
  \/ SizeOutOfBounds(p)
  \/ ImageAndSnapshot(p)
  \/ DiskIdAndName(p)
  \/ InvalidMode(p)
  \/ UnsupportedAction(p)

\* C27: a call whose payload fails validation (disk size out of bounds,
\* image_id with snapshot_id, disk_id with disk_name, an invalid disk mode,
\* an unsupported instance or disk action) issues no HTTP request, in
\* blocking and in cooperative mode, and ends raising; only the check of the
\* action of a cooperative helper waits for the first run of its coroutine.
C27_InvalidPayloadSendsNothing ==
  InvalidPayload(params) =>
    /\ dposts = 0
    /\ dpc \in {"idle", "coroutine", "raised"}
    /\ dpc = "coroutine" => (UnsupportedAction(params) /\ ENABLED coroutine_first_run)
    /\ dpc = "raised" =>
         dexc \in {Some("ValueError"), Some("TooManyArguments"), Some("TypeError")}

C27_Witness ==
  /\ params.method = "instance_attach_new_disk"
  /\ params.run_async_await
  /\ params.size = Some(MAX_DISK_SIZE + 1)
  /\ params.mode = Some("rw")
  /\ ~ImageAndSnapshot(params)
  /\ dpc = "raised"
  /\ dexc = Some("ValueError")
  /\ dposts = 0


\* ------------------------------------------------------------- the quota
CONCURRENT_OP_QUOTA == 15

\* round(a / b) of Python 3: to the nearest integer, a tie to the even one
round(a, b) ==
  LET q == a \div b
      r == a % b
  IN IF 2 * r > b THEN q + 1
     ELSE IF 2 * r < b THEN q
     ELSE IF q % 2 = 0 THEN q ELSE q + 1

\* OP_LIMIT for n configured instances
OP_LIMIT(n) ==
  LET l == round(CONCURRENT_OP_QUOTA, n) IN IF l <= 1 THEN 3 ELSE l

\* len of the next chunk of list_chunks(todo_list, OP_LIMIT), or of
\* todo_list itself when it is no longer than OP_LIMIT
chunk_len(left, n) == Min(left, n)

RECURSIVE SumInFlight(_)
\* operations in flight over the instances 1..i
SumInFlight(i) == IF i = 0 THEN 0 ELSE qflying[i] + SumInFlight(i - 1)

\* main: run_cleaner / run_spawner for ninst instances, each with ntodo
\* coroutines in its todo_list
QuotaInit ==
  /\ ninst \in Instances
  /\ ntodo \in 1..MaxTodo
  /\ qstate = [i \in Instances |-> IF i <= ninst THEN "for" ELSE "none"]
  /\ qtodo = [i \in Instances |-> IF i <= ninst THEN ntodo ELSE 0]
  /\ qsched = [i \in Instances |-> 0]
  /\ qflying = [i \in Instances |-> 0]

\* snapshot_cleaner / snapshot_spawner of instance i reaches
\* `await asyncio.gather(*chunk)`: the tasks of the chunk are scheduled
snapshot_cleaner_gather(i) ==
  /\ UNCHANGED <<pollerVars, transportVars, decodeVars, batchVars, dispatchVars>>
  /\ qstate[i] = "for"
  /\ LET k == chunk_len(qtodo[i], OP_LIMIT(ninst)) IN
       /\ qsched' = [qsched EXCEPT ![i] = k]
       /\ qtodo' = [qtodo EXCEPT ![i] = @ - k]
  /\ qstate' = [qstate EXCEPT ![i] = "gather"]
  /\ UNCHANGED <<ninst, ntodo, qflying>>

\* a task of the chunk runs for the first time: its mutating call is
\* accepted, the operation is in flight
operation_issued(i) ==
  /\ UNCHANGED <<pollerVars, transportVars, decodeVars, batchVars, dispatchVars>>
  /\ qstate[i] = "gather"
  /\ qsched[i] > 0
  /\ qsched' = [qsched EXCEPT ![i] = @ - 1]
  /\ qflying' = [qflying EXCEPT ![i] = @ + 1]
  /\ UNCHANGED <<ninst, ntodo, qstate, qtodo>>

\* a task reads its operation done and ends
operation_completed(i) ==
  /\ UNCHANGED <<pollerVars, transportVars, decodeVars, batchVars, dispatchVars>>
  /\ qstate[i] = "gather"
  /\ qflying[i] > 0
  /\ qflying' = [qflying EXCEPT ![i] = @ - 1]
  /\ UNCHANGED <<ninst, ntodo, qstate, qtodo, qsched>>

\* a task raises (its call or its wait failed): the gather of its chunk,
\* the coroutine of its instance, the outer gather and run_until_complete
\* raise in turn, and the loop runs no further
operation_raised(i) ==
  /\ UNCHANGED <<pollerVars, transportVars, decodeVars, batchVars, dispatchVars>>
  /\ qstate[i] = "gather"
  /\ qsched[i] + qflying[i] > 0
  /\ qstate' = [j \in Instances |-> IF j <= ninst THEN "raised" ELSE "none"]
  /\ UNCHANGED <<ninst, ntodo, qtodo, qsched, qflying>>

\* the gather of the chunk returns: the next chunk, or the end of the batch
snapshot_cleaner_next(i) ==
  /\ UNCHANGED <<pollerVars, transportVars, decodeVars, batchVars, dispatchVars>>
  /\ qstate[i] = "gather"
  /\ qsched[i] = 0
  /\ qflying[i] = 0
  /\ qstate' = [qstate EXCEPT ![i] = IF qtodo[i] = 0 THEN "returned" ELSE "for"]
  /\ UNCHANGED <<ninst, ntodo, qtodo, qsched, qflying>>

QuotaSpecInit ==
  PollerIdle /\ TransportIdle /\ DecodeIdle /\ BatchIdle /\ DispatchIdle /\ QuotaInit

QuotaNext ==
  \E i \in Instances :
    \/ snapshot_cleaner_gather(i)
    \/ operation_issued(i)
    \/ operation_completed(i)
    \/ operation_raised(i)
    \/ snapshot_cleaner_next(i)

QuotaSpec == QuotaSpecInit /\ [][QuotaNext]_vars

\* ------------------------------------------------------ quota properties
\* C30: for every number of configured instances, the operations in flight
\* over all instances never number more than CONCURRENT_OP_QUOTA.
C30_InFlightWithinQuota == SumInFlight(ninst) <= CONCURRENT_OP_QUOTA

====
